---- MODULE Spec2Model ----
(***************************************************************************)
(* sign-txs (src/main.rs): batch signing of raw Bitcoin transactions.      *)
(*                                                                         *)
(* main reads a JSON array of {"bitcoin": hex} records, calls              *)
(* sign_transaction on each in order and prints the array of results.      *)
(* sign_transaction decodes the transaction (bitcoin-cli                   *)
(* decoderawtransaction), fetches the previous output of every input that  *)
(* has no witness (bitcoin-cli getrawtransaction), and signs with the      *)
(* wallet (signrawtransactionwithwallet, through docker exec when a        *)
(* container is configured).  Every `?` propagates the error to main,      *)
(* which returns it without printing anything.                             *)
(*                                                                         *)
(* The program blocks on each external process; the model splits every     *)
(* gateway call into the step that launches it and the step in which the   *)
(* process outcome (launch failure, exit status, stdout, stderr) arrives.  *)
(***************************************************************************)
EXTENDS Integers, Sequences, FiniteSets, TLC

\* ------------------------------------------------------------- bounds
MaxTxs == 2
MaxVin == 2

\* ------------------------------------------------------ program constants
BTC_CLI == "bitcoin-cli"

\* ------------------------------------------------- Option and Result values
None == [some |-> FALSE, val |-> <<>>]
Some(v) == [some |-> TRUE, val |-> v]

Ok(v) == [ok |-> TRUE, val |-> v, err |-> <<>>]
Err(e) == [ok |-> FALSE, val |-> <<>>, err |-> e]

\* anyhow's .context(): the new message is put in front of the error chain.
Context(r, msg) == IF r.ok THEN r ELSE Err(<<msg>> \o r.err)

\* ------------------------------------------------------------ text model
\* The standard output of a process is a sequence of tokens: a whitespace
\* token, a JSON document (a record with the document's keys), or text that
\* is no JSON at all.
WS == [ws |-> "\n"]
Garbage == [text |-> "not json"]
IsWs(t) == "ws" \in DOMAIN t

SeqMin(S) == CHOOSE m \in S : \A k \in S : m <= k
SeqMax(S) == CHOOSE m \in S : \A k \in S : m >= k

\* str::trim: drops the leading and the trailing whitespace.
Trim(s) ==
  LET solid == {k \in 1..Len(s) : ~IsWs(s[k])}
  IN IF solid = {} THEN <<>> ELSE SubSeq(s, SeqMin(solid), SeqMax(solid))

\* ------------------------------------------------ outcome of a child process
LaunchFailure ==
  [launched |-> FALSE, status |-> -1, stdout |-> <<>>, stderr |-> "",
   io |-> "No such file or directory (os error 2)"]
Exited(status, out, errtext) ==
  [launched |-> TRUE, status |-> status, stdout |-> out, stderr |-> errtext,
   io |-> ""]

\* ---------------------------------------------------------------- gateway
\* The captured stdout and stderr are taken to be valid UTF-8, on which
\* String::from_utf8_lossy changes nothing.
\* Mutant of run_btc_cli: the error of a non-zero exit does not quote stderr.
run_btc_cli_no_diag(output) ==
  IF ~output.launched
    THEN Err(<<"Failed to execute " \o BTC_CLI, output.io>>)
  ELSE IF output.status # 0
    THEN Err(<<BTC_CLI \o " failed">>)
  ELSE Ok(Trim(output.stdout))

run_btc_cli(output) ==
  IF ~output.launched
    THEN Err(<<"Failed to execute " \o BTC_CLI, output.io>>)
  ELSE IF output.status # 0
    THEN Err(<<BTC_CLI \o " failed: " \o output.stderr>>)
  ELSE Ok(Trim(output.stdout))

DockerArgs(container, args) == <<"exec", container, BTC_CLI>> \o args

\* Mutant of run_docker_btc: the standard output is returned untrimmed.
run_docker_btc_untrimmed(output) ==
  IF ~output.launched
    THEN Err(<<"Failed to execute docker", output.io>>)
  ELSE IF output.status # 0
    THEN Err(<<"docker exec " \o BTC_CLI \o " failed: " \o output.stderr>>)
  ELSE Ok(output.stdout)

run_docker_btc(output) ==
  IF ~output.launched
    THEN Err(<<"Failed to execute docker", output.io>>)
  ELSE IF output.status # 0
    THEN Err(<<"docker exec " \o BTC_CLI \o " failed: " \o output.stderr>>)
  ELSE Ok(Trim(output.stdout))

\* ------------------------------------------------------- serde_json::from_str
\* A text parses as a struct when it is exactly one JSON document holding the
\* struct's required keys; unknown keys are ignored, a missing Option key is
\* None.
SerdeError == Err(<<"expected value at line 1 column 1">>)
IsDoc(text, keys) == Len(text) = 1 /\ keys \subseteq DOMAIN text[1]

\* Mutant of VinEntryOf: the witness key is not read.
VinEntryOfNoWitness(e) == [txid |-> e.txid, vout |-> e.vout, txinwitness |-> None]

VinEntryOf(e) ==
  [txid |-> e.txid, vout |-> e.vout,
   txinwitness |-> IF "txinwitness" \in DOMAIN e THEN Some(e.txinwitness) ELSE None]

ParseDecodeResult(text) ==
  IF IsDoc(text, {"vin"})
    THEN Ok([vin |-> [k \in 1..Len(text[1].vin) |-> VinEntryOf(text[1].vin[k])]])
    ELSE SerdeError

VoutEntryOf(e) == [value |-> e.value, script_pubkey |-> [hex |-> e.scriptPubKey.hex]]

ParseTxInfo(text) ==
  IF IsDoc(text, {"vout"})
    THEN Ok([vout |-> [k \in 1..Len(text[1].vout) |-> VoutEntryOf(text[1].vout[k])]])
    ELSE SerdeError

ParseSignResult(text) ==
  IF IsDoc(text, {"hex", "complete"})
    THEN Ok([hex |-> text[1].hex, complete |-> text[1].complete,
             errors |-> IF "errors" \in DOMAIN text[1]
                          THEN Some(text[1].errors) ELSE None])
    ELSE SerdeError

\* serde_json::to_string(&prevouts): script_pubkey is renamed scriptPubKey.
PrevOutsJson(ps) ==
  [json |-> [k \in 1..Len(ps) |->
     [txid |-> ps[k].txid, vout |-> ps[k].vout, amount |-> ps[k].amount,
      scriptPubKey |-> ps[k].script_pubkey]]]

\* serde_json::to_string_pretty(&signed_txs)
TxEntriesJson(entries) ==
  [json |-> [k \in 1..Len(entries) |-> [bitcoin |-> entries[k].bitcoin]]]

\* ------------------------------------------------ node and wallet (bitcoind)
\* What the external bitcoin-cli answers.  The node knows the transaction t1,
\* which has two outputs, and no other; decoderawtransaction may decode a hex
\* into any input list of at most MaxVin inputs; the wallet may return the hex
\* with or without new signatures, complete or not, with or without errors.
RawHexes == {"0200aa", "0200bb"}
KnownTxIds == {"t1"}
NodeVout(txid) ==
  IF txid = "t1"
    THEN << [value |-> 5, scriptPubKey |-> [hex |-> "0014aa"]],
            [value |-> 7, scriptPubKey |-> [hex |-> "0014bb"]] >>
    ELSE <<>>

VinChoices ==
  { [txid |-> "t1", vout |-> 0],
    [txid |-> "t1", vout |-> 1],
    [txid |-> "t1", vout |-> 2],
    [txid |-> "t2", vout |-> 0],
    [txid |-> "t2", vout |-> 0, txinwitness |-> <<"3044">>],
    [txid |-> "t1", vout |-> 0, txinwitness |-> <<>>] }
VinLists == UNION {[1..n -> VinChoices] : n \in 0..MaxVin}

SignDocs(raw) ==
  LET hexes == {raw \o "+sig", raw}
  IN {[hex |-> h, complete |-> c] : h \in hexes, c \in BOOLEAN}
     \cup {[hex |-> h, complete |-> c, errors |-> <<"Input not found or already spent">>] :
             h \in hexes, c \in BOOLEAN}

NoSuchTx == "error code: -5 No such mempool or blockchain transaction"
TransportFailures ==
  { LaunchFailure,
    Exited(1, <<>>, "error: Could not connect to the server"),
    Exited(0, <<Garbage, WS>>, "") }

NodeAnswers(args) ==
  IF args[1] = "decoderawtransaction"
    THEN {Exited(0, <<[vin |-> v], WS>>, "") : v \in VinLists}
  ELSE IF args[1] = "getrawtransaction"
    THEN IF args[2] \in KnownTxIds
           THEN {Exited(0, <<[vout |-> NodeVout(args[2])], WS>>, "")}
           ELSE {Exited(5, <<>>, NoSuchTx)}
  ELSE {Exited(0, <<d, WS>>, "") : d \in SignDocs(args[2])}

ProcessOutcomes(args) == TransportFailures \cup NodeAnswers(args)

\* The bitcoin-cli arguments of a launched command, whatever the transport.
CliArgs(c) == IF c.program = "docker" THEN SubSeq(c.args, 4, Len(c.args)) ELSE c.args

\* ------------------------------------------------------- sign_transaction
decode_transaction(output) ==
  LET r == run_btc_cli(output)
  IN IF r.ok THEN Context(ParseDecodeResult(r.val), "Failed to parse decoded transaction")
             ELSE r

\* Mutant of get_prevout_info: an index outside the output list is an error.
get_prevout_info_strict(output, vout) ==
  LET r == run_btc_cli(output)
  IN IF ~r.ok THEN r
     ELSE LET p == Context(ParseTxInfo(r.val), "Failed to parse transaction info")
          IN IF ~p.ok THEN p
             ELSE IF vout < Len(p.val.vout)
               THEN Ok(Some([amount |-> p.val.vout[vout + 1].value,
                             script_pubkey |-> p.val.vout[vout + 1].script_pubkey.hex]))
               ELSE Err(<<"vout index out of range">>)

get_prevout_info(output, vout) ==
  LET r == run_btc_cli(output)
  IN IF ~r.ok THEN r
     ELSE LET p == Context(ParseTxInfo(r.val), "Failed to parse transaction info")
          IN IF ~p.ok THEN p
             ELSE IF vout < Len(p.val.vout)
               THEN Ok(Some([amount |-> p.val.vout[vout + 1].value,
                             script_pubkey |-> p.val.vout[vout + 1].script_pubkey.hex]))
               ELSE Ok(None)

\* Mutant of AlreadySigned: an empty witness list does not count as a witness.
AlreadySignedNonEmpty(input) ==
  input.txinwitness.some /\ Len(input.txinwitness.val) > 0

AlreadySigned(input) == input.txinwitness.some

\* Mutant of NewPrevOut: the output index of the input is not copied.
NewPrevOutNoIndex(input, info) ==
  [txid |-> input.txid, vout |-> 0, amount |-> info.amount,
   script_pubkey |-> info.script_pubkey]

NewPrevOut(input, info) ==
  [txid |-> input.txid, vout |-> input.vout, amount |-> info.amount,
   script_pubkey |-> info.script_pubkey]

\* Mutant of NothingToSign: the signer is asked also with no prevout.
NothingToSignNever(ps) == FALSE

NothingToSign(ps) == Len(ps) = 0

SignArgs(raw_tx, ps) == <<"signrawtransactionwithwallet", raw_tx, PrevOutsJson(ps)>>

\* Mutant of SignCall: the configured container is ignored.
SignCallDirect(cont, raw_tx, ps) ==
  [program |-> BTC_CLI, args |-> SignArgs(raw_tx, ps)]

SignCall(cont, raw_tx, ps) ==
  IF cont.some
    THEN [program |-> "docker", args |-> DockerArgs(cont.val, SignArgs(raw_tx, ps))]
    ELSE [program |-> BTC_CLI, args |-> SignArgs(raw_tx, ps)]

DirectCall(args) == [program |-> BTC_CLI, args |-> args]

\* Mutant of sign_result: a result that is not complete is an error.
sign_result_strict(cont, output) ==
  LET r == IF cont.some THEN run_docker_btc(output) ELSE run_btc_cli(output)
      p == IF r.ok THEN Context(ParseSignResult(r.val), "Failed to parse sign result") ELSE r
  IN IF p.ok /\ ~p.val.complete THEN Err(<<"Transaction not fully signed">>) ELSE p

sign_result(cont, output) ==
  LET r == IF cont.some THEN run_docker_btc(output) ELSE run_btc_cli(output)
  IN IF r.ok THEN Context(ParseSignResult(r.val), "Failed to parse sign result") ELSE r

\* Lines 184-191: what is printed about the signer's report.
SignDiagnostics(sr) ==
  IF sr.complete THEN <<[msg |-> "Transaction fully signed"]>>
  ELSE IF sr.errors.some
    THEN <<[msg |-> "Warning: Transaction not fully signed. Errors: ",
            errors |-> sr.errors.val]>>
  ELSE <<>>

\* Mutant of SignedHex: the original hex is returned.
SignedHexOriginal(sr, raw_tx) == raw_tx

\* The value sign_transaction returns after the signer answered (line 193).
SignedHex(sr, raw_tx) == sr.hex

\* ------------------------------------------------------------------ state
VARIABLES
  container,   \* args.bitcoind_container: Option<String>
  pc,          \* where main is: start, main, decode, vin, fetch, sign, done, failed
  txs,         \* the parsed input: Vec<TxEntry>
  i,           \* index of the main loop (0-based, as enumerate gives it)
  signed_txs,  \* Vec<TxEntry> built by main
  returned,    \* history: what each sign_transaction call returned, in call order:
               \*   item, hex: the loop index and the returned value;
               \*   signer: <<>>, or <<hex of the signer's answer>> when it was asked;
               \*   all_witnessed: every input of the decode answer had a txinwitness key
  decoded,     \* decoded.vin of the transaction being processed
  j,           \* index of the input loop (0-based)
  prevouts,    \* Vec<PrevOut> of the transaction being processed
  call,        \* the child process main is blocked on: <<>> or <<[program, args]>>
  item_cmds,   \* history: the commands launched for the current transaction
  item_outs,   \* history: the outcomes of those commands, in the same order
  item_diag,   \* the lines printed to stderr for the current transaction
  stdout,      \* what main printed to standard output
  err          \* the error main returned (anyhow chain, outermost first)

vars == <<container, pc, txs, i, signed_txs, returned, decoded, j, prevouts,
          call, item_cmds, item_outs, item_diag, stdout, err>>

Containers == {None, Some("c0ffee")}
\* The batches of at most MaxTxs entries. The program never looks inside a
\* hex and treats every entry alike, so the first entry's hex is fixed and the
\* later entries range over equal and different ones.
Batches ==
  {b \in UNION {[1..n -> {[bitcoin |-> h] : h \in RawHexes}] : n \in 0..MaxTxs} :
     Len(b) >= 1 => b[1].bitcoin = "0200aa"}
\* The input text: a JSON array of TxEntry, or something that is not.
ArrayDoc(b) == [array |-> b]
InputTexts == {<<ArrayDoc(b), WS>> : b \in Batches} \cup {<<Garbage, WS>>}

ParseTxEntries(text) ==
  Context(IF IsDoc(Trim(text), {"array"}) THEN Ok(Trim(text)[1].array) ELSE SerdeError,
          "Failed to parse input JSON")

\* Mutant of raw_tx: a transaction after the first is taken from the result of
\* the one before it.
raw_tx_chained == IF i > 0 THEN signed_txs[i].bitcoin ELSE txs[i + 1].bitcoin

raw_tx == txs[i + 1].bitcoin

Init ==
  /\ container \in Containers
  /\ pc = "start"
  /\ txs = <<>>
  /\ i = 0
  /\ signed_txs = <<>>
  /\ returned = <<>>
  /\ decoded = <<>>
  /\ j = 0
  /\ prevouts = <<>>
  /\ call = <<>>
  /\ item_cmds = <<>>
  /\ item_outs = <<>>
  /\ item_diag = <<>>
  /\ stdout = <<>>
  /\ err = <<>>

\* Mutant of AbortRun: the results gathered so far are printed before the error
\* is returned.
AbortRunPartial(e) ==
  /\ pc' = "failed"
  /\ err' = e
  /\ stdout' = <<TxEntriesJson(signed_txs)>>

\* Mutant of AbortRun: a fetch that fails is tried again instead of ending the run.
AbortRunRetryFetch(e) ==
  IF pc = "fetch"
    THEN /\ pc' = "vin"
         /\ err' = err
         /\ stdout' = stdout
    ELSE /\ pc' = "failed"
         /\ err' = e
         /\ stdout' = stdout

\* `?` in sign_transaction and at line 222: the error reaches main's caller,
\* nothing is printed to standard output.
AbortRun(e) ==
  /\ pc' = "failed"
  /\ err' = e
  /\ stdout' = stdout

\* Mutant of PushSigned: the result is put in front of the list.
PushSignedFront(list, hex) == <<[bitcoin |-> hex]>> \o list

\* Lines 222-225: the value sign_transaction returned is pushed.
PushSigned(list, hex) == Append(list, [bitcoin |-> hex])

\* The decode answer of the current transaction, as the node printed it.
DecodeAnswerVin == item_outs[1].stdout[1].vin
HasWitnessKey(e) == "txinwitness" \in DOMAIN e

\* Mutant of ReturnToMain: the result is dropped and the loop index is not
\* advanced.
ReturnToMainStuck(hex, signer) ==
  /\ pc' = "main"
  /\ UNCHANGED <<signed_txs, returned, i>>

ReturnToMain(hex, signer) ==
  /\ signed_txs' = PushSigned(signed_txs, hex)
  /\ returned' = Append(returned,
       [item |-> i, hex |-> hex, signer |-> signer,
        all_witnessed |-> \A n \in 1..Len(DecodeAnswerVin) :
                            HasWitnessKey(DecodeAnswerVin[n])])
  /\ i' = i + 1
  /\ pc' = "main"

\* Lines 200-213: the input is read and parsed.
ReadInput ==
  /\ pc = "start"
  /\ \E text \in InputTexts :
       LET r == ParseTxEntries(text)
       IN IF r.ok
            THEN /\ txs' = r.val
                 /\ pc' = "main"
                 /\ UNCHANGED <<err, stdout>>
            ELSE /\ AbortRun(r.err)
                 /\ UNCHANGED txs
  /\ UNCHANGED <<container, i, signed_txs, returned, decoded, j, prevouts, call,
                 item_cmds, item_outs, item_diag>>

ReadInputFails ==
  /\ pc = "start"
  /\ \E msg \in {"Failed to read input file", "Failed to read from stdin"} :
       AbortRun(<<msg, "os error">>)
  /\ UNCHANGED <<container, txs, i, signed_txs, returned, decoded, j, prevouts, call,
                 item_cmds, item_outs, item_diag>>

\* Lines 221-222, 124-127: the next transaction; decoderawtransaction is launched.
StartItem ==
  /\ pc = "main"
  /\ i < Len(txs)
  /\ LET c == DirectCall(<<"decoderawtransaction", raw_tx>>)
     IN /\ call' = <<c>>
        /\ item_cmds' = <<[cmd |-> c, input |-> -1]>>
  /\ item_outs' = <<>>
  /\ item_diag' = <<[msg |-> "Processing transaction", n |-> i + 1]>>
  /\ decoded' = <<>>
  /\ j' = 0
  /\ prevouts' = <<>>
  /\ pc' = "decode"
  /\ UNCHANGED <<container, txs, i, signed_txs, returned, stdout, err>>

\* Lines 127-130: the decode process ended.
DecodeReturn ==
  /\ pc = "decode"
  /\ \E output \in ProcessOutcomes(CliArgs(call[1])) :
       LET r == decode_transaction(output)
       IN /\ item_outs' = Append(item_outs, output)
          /\ IF r.ok
               THEN /\ decoded' = r.val.vin
                    /\ pc' = "vin"
                    /\ UNCHANGED <<err, stdout>>
               ELSE /\ AbortRun(r.err)
                    /\ UNCHANGED decoded
  /\ call' = <<>>
  /\ UNCHANGED <<container, txs, i, signed_txs, returned, j, prevouts, item_cmds,
                 item_diag>>

\* Lines 132-137: an input that carries witness data is skipped.
SkipSigned ==
  /\ pc = "vin"
  /\ j < Len(decoded)
  /\ AlreadySigned(decoded[j + 1])
  /\ item_diag' = Append(item_diag, [msg |-> "already signed, skipping", n |-> j])
  /\ j' = j + 1
  /\ UNCHANGED <<container, pc, txs, i, signed_txs, returned, decoded, prevouts, call,
                 item_cmds, item_outs, stdout, err>>

\* Lines 139-145, 109: getrawtransaction is launched for the input.
IssueFetch ==
  /\ pc = "vin"
  /\ j < Len(decoded)
  /\ ~AlreadySigned(decoded[j + 1])
  /\ item_diag' = Append(item_diag, [msg |-> "fetching prevout info...", n |-> j])
  /\ LET c == DirectCall(<<"getrawtransaction", decoded[j + 1].txid, "true">>)
     IN /\ call' = <<c>>
        /\ item_cmds' = Append(item_cmds, [cmd |-> c, input |-> j])
  /\ pc' = "fetch"
  /\ UNCHANGED <<container, txs, i, signed_txs, returned, decoded, j, prevouts,
                 item_outs, stdout, err>>

\* Lines 145-165: the fetch process ended.
FetchReturn ==
  /\ pc = "fetch"
  /\ \E output \in ProcessOutcomes(CliArgs(call[1])) :
       LET input == decoded[j + 1]
           r == get_prevout_info(output, input.vout)
       IN /\ item_outs' = Append(item_outs, output)
          /\ IF ~r.ok
               THEN /\ AbortRun(r.err)
                    /\ UNCHANGED <<prevouts, item_diag, j>>
             ELSE /\ IF r.val.some
                       THEN /\ prevouts' = Append(prevouts, NewPrevOut(input, r.val.val))
                            /\ item_diag' = Append(item_diag,
                                 [msg |-> "amount, scriptPubKey", n |-> j])
                       ELSE /\ prevouts' = prevouts
                            /\ item_diag' = Append(item_diag,
                                 [msg |-> "prevout not found on chain, may be from earlier tx in batch",
                                  n |-> j])
                  /\ j' = j + 1
                  /\ pc' = "vin"
                  /\ UNCHANGED <<err, stdout>>
  /\ call' = <<>>
  /\ UNCHANGED <<container, txs, i, signed_txs, returned, decoded, item_cmds>>

\* Lines 167-170: no prevout was resolved; the original hex is returned.
Passthrough ==
  /\ pc = "vin"
  /\ j = Len(decoded)
  /\ NothingToSign(prevouts)
  /\ item_diag' = Append(item_diag,
       [msg |-> "No inputs to sign, returning original transaction"])
  /\ ReturnToMain(raw_tx, <<>>)
  /\ UNCHANGED <<container, txs, decoded, j, prevouts, call, item_cmds, item_outs,
                 stdout, err>>

\* Mutant of IssueSign: the signer is asked as soon as one PrevOut is resolved,
\* before the remaining inputs are looked at.
IssueSignEarly ==
  /\ pc = "vin"
  /\ ~NothingToSign(prevouts)
  /\ item_diag' = Append(item_diag,
       [msg |-> "Signing input(s) with wallet...", n |-> Len(prevouts)])
  /\ LET c == SignCall(container, raw_tx, prevouts)
     IN /\ call' = <<c>>
        /\ item_cmds' = Append(item_cmds, [cmd |-> c, input |-> -1])
  /\ pc' = "sign"
  /\ UNCHANGED <<container, txs, i, signed_txs, returned, decoded, j, prevouts,
                 item_outs, stdout, err>>

\* Lines 172-179: signrawtransactionwithwallet is launched.
IssueSign ==
  /\ pc = "vin"
  /\ j = Len(decoded)
  /\ ~NothingToSign(prevouts)
  /\ item_diag' = Append(item_diag,
       [msg |-> "Signing input(s) with wallet...", n |-> Len(prevouts)])
  /\ LET c == SignCall(container, raw_tx, prevouts)
     IN /\ call' = <<c>>
        /\ item_cmds' = Append(item_cmds, [cmd |-> c, input |-> -1])
  /\ pc' = "sign"
  /\ UNCHANGED <<container, txs, i, signed_txs, returned, decoded, j, prevouts,
                 item_outs, stdout, err>>

\* Lines 176-193: the sign process ended.
SignReturn ==
  /\ pc = "sign"
  /\ \E output \in ProcessOutcomes(CliArgs(call[1])) :
       LET r == sign_result(container, output)
       IN /\ item_outs' = Append(item_outs, output)
          /\ IF r.ok
               THEN /\ item_diag' = item_diag \o SignDiagnostics(r.val)
                    /\ ReturnToMain(SignedHex(r.val, raw_tx), <<output.stdout[1].hex>>)
                    /\ UNCHANGED <<err, stdout>>
               ELSE /\ AbortRun(r.err)
                    /\ UNCHANGED <<item_diag, signed_txs, returned, i>>
  /\ call' = <<>>
  /\ UNCHANGED <<container, txs, decoded, j, prevouts, item_cmds>>

\* Lines 228-233: every transaction was processed; the result is printed.
PrintOutput ==
  /\ pc = "main"
  /\ i = Len(txs)
  /\ stdout' = <<TxEntriesJson(signed_txs)>>
  /\ pc' = "done"
  /\ UNCHANGED <<container, txs, i, signed_txs, returned, decoded, j, prevouts, call,
                 item_cmds, item_outs, item_diag, err>>

Next ==
  \/ ReadInput
  \/ ReadInputFails
  \/ StartItem
  \/ DecodeReturn
  \/ SkipSigned
  \/ IssueFetch
  \/ FetchReturn
  \/ Passthrough
  \/ IssueSign
  \/ SignReturn
  \/ PrintOutput

Spec == Init /\ [][Next]_vars

\* ================================================================ claims
\* Reading the history of the current transaction.
CmdName(k) == CliArgs(item_cmds[k].cmd)[1]
IsDecode(k) == CmdName(k) = "decoderawtransaction"
IsFetch(k) == CmdName(k) = "getrawtransaction"
IsSign(k) == CmdName(k) = "signrawtransactionwithwallet"
Returned(k) == k <= Len(item_outs)
\* The process of command k ran and exited with status 0.
ExitedZero(k) == item_outs[k].launched /\ item_outs[k].status = 0
\* The JSON document command k printed, when it printed one.
PrintedDoc(k, keys) ==
  /\ ExitedZero(k)
  /\ Len(item_outs[k].stdout) >= 1
  /\ keys \subseteq DOMAIN item_outs[k].stdout[1]
Doc(k) == item_outs[k].stdout[1]
SignIssued == \E k \in 1..Len(item_cmds) : IsSign(k)
\* The gateway call or the parse of its response failed for command k.
GatewayOrParseFailed(k) ==
  \/ ~ExitedZero(k)
  \/ IsDecode(k) /\ ~PrintedDoc(k, {"vin"})
  \/ IsFetch(k) /\ ~PrintedDoc(k, {"vout"})
  \/ IsSign(k) /\ ~PrintedDoc(k, {"hex", "complete"})
Output == stdout[1].json

\* C1: if the run prints output, the output list is as long as the input list
\* and its entry at position k is what the signing attempt on input k returned
\* (the input's hex, with or without the wallet's signatures): nothing is
\* dropped, duplicated or reordered.
C1_OutputPositional ==
  stdout # <<>> =>
    /\ Len(stdout) = 1
    /\ Len(Output) = Len(txs)
    /\ Len(returned) = Len(txs)
    /\ \A k \in 1..Len(txs) :
         /\ returned[k].item = k - 1
         /\ Output[k].bitcoin = returned[k].hex
         /\ Output[k].bitcoin \in {txs[k].bitcoin, txs[k].bitcoin \o "+sig"}

\* A batch of two different transactions was printed, the first signed by the
\* wallet and the second passed through.
C1_Witness ==
  /\ stdout # <<>>
  /\ Len(txs) = 2
  /\ txs[1].bitcoin # txs[2].bitcoin
  /\ returned[1].signer # <<>>
  /\ returned[2].signer = <<>>
  /\ Output[1].bitcoin = txs[1].bitcoin \o "+sig"
  /\ Output[2].bitcoin = txs[2].bitcoin

\* C2: all-or-nothing: when a gateway call or the parse of its response fails
\* while transaction k of the batch is processed, the run has failed and nothing
\* was printed, whatever the number of transactions already signed.
C2_AllOrNothing ==
  /\ (\E k \in 1..Len(item_outs) : GatewayOrParseFailed(k)) =>
        pc = "failed" /\ stdout = <<>>
  /\ pc = "failed" => stdout = <<>>

\* The second transaction of a batch of two failed after the first was signed.
C2_Witness ==
  /\ pc = "failed"
  /\ Len(txs) = 2
  /\ Len(signed_txs) = 1
  /\ returned[1].signer # <<>>
  /\ \E k \in 1..Len(item_outs) : GatewayOrParseFailed(k)

\* The input of the decode answer that fetch command k is about.
FetchInput(k) == DecodeAnswerVin[item_cmds[k].input + 1]
\* Command k asked the node for a transaction it does not know, and the node
\* answered.
UnknownTxAnswered(k) ==
  /\ IsFetch(k)
  /\ CliArgs(item_cmds[k].cmd)[2] \notin KnownTxIds
  /\ item_outs[k] \in NodeAnswers(CliArgs(item_cmds[k].cmd))
\* Command k fetched a transaction the node returned, and the input's index is
\* outside its output list.
OutOfRange(k) ==
  /\ IsFetch(k)
  /\ PrintedDoc(k, {"vout"})
  /\ FetchInput(k).vout >= Len(Doc(k).vout)
NotFoundLine(n) ==
  [msg |-> "prevout not found on chain, may be from earlier tx in batch", n |-> n]
HasLine(l) == \E m \in 1..Len(item_diag) : item_diag[m] = l

\* C3: resolving an input whose transaction the node does not know yields None,
\* not an error: the run is not aborted by that call, the not-found line is
\* printed and the next input is processed.
C3_UnknownTxYieldsNone ==
  \A k \in 1..Len(item_outs) :
    UnknownTxAnswered(k) =>
      /\ pc = "failed" => k < Len(item_outs)
      /\ HasLine(NotFoundLine(item_cmds[k].input))
      /\ j > item_cmds[k].input

\* C4: when the node returns the transaction and the input's index is outside
\* its output list, the call does not abort the run, the input adds no PrevOut,
\* the not-found line is printed and the next input is processed.
C4_OutOfRangeYieldsNone ==
  \A k \in 1..Len(item_outs) :
    OutOfRange(k) =>
      /\ pc = "failed" => k < Len(item_outs)
      /\ HasLine(NotFoundLine(item_cmds[k].input))
      /\ j > item_cmds[k].input
      /\ \A m \in 1..Len(prevouts) :
           ~(prevouts[m].txid = FetchInput(k).txid /\ prevouts[m].vout = FetchInput(k).vout)
      /\ Len(prevouts) < Len(item_outs) - 1

\* The first input was out of range, the second was found, and the signer is
\* being asked with the one PrevOut.
C4_Witness ==
  /\ pc = "sign"
  /\ Len(prevouts) = 1
  /\ \E k \in 1..Len(item_outs) : OutOfRange(k) /\ item_cmds[k].input = 0

\* The decode command of the current transaction printed an input list in
\* which every input has a witness key.
DecodedAllWitnessed ==
  /\ Len(item_outs) >= 1
  /\ PrintedDoc(1, {"vin"})
  /\ \A n \in 1..Len(DecodeAnswerVin) : HasWitnessKey(DecodeAnswerVin[n])

\* C5: a transaction whose decode succeeds and whose decoded inputs all carry a
\* witness (or that has no input) is passed through: no fetch and no sign
\* command is launched for it, the value pushed for it is its input hex, and so
\* is its entry of the printed output.
C5_Passthrough ==
  /\ DecodedAllWitnessed =>
       /\ pc \in {"vin", "main", "done"}
       /\ Len(item_cmds) = 1
       /\ pc \in {"main", "done"} =>
            /\ Len(signed_txs) = i
            /\ signed_txs[i].bitcoin = txs[i].bitcoin
  /\ stdout # <<>> =>
       \A k \in 1..Len(returned) :
         returned[k].all_witnessed => Output[k].bitcoin = txs[k].bitcoin

\* A batch of two was printed whose second transaction has two witnessed
\* inputs and whose first was signed by the wallet.
C5_Witness ==
  /\ pc = "done"
  /\ Len(txs) = 2
  /\ DecodedAllWitnessed
  /\ Len(DecodeAnswerVin) = 2
  /\ returned[2].all_witnessed
  /\ returned[1].hex = txs[1].bitcoin \o "+sig"

\* C6: no getrawtransaction command is ever launched for an input that carries
\* a witness key, wherever the input is in the list; each fetch is for an
\* unwitnessed input and asks for that input's txid.
C6_WitnessedNeverFetched ==
  \A k \in 1..Len(item_cmds) :
    IsFetch(k) =>
      /\ item_cmds[k].input \in 0..(Len(DecodeAnswerVin) - 1)
      /\ ~HasWitnessKey(FetchInput(k))
      /\ CliArgs(item_cmds[k].cmd)[2] = FetchInput(k).txid

\* The first input was fetched, the second carries a witness and was skipped.
C6_Witness ==
  /\ pc = "vin"
  /\ j = 2
  /\ Len(item_cmds) = 2
  /\ IsFetch(2)
  /\ HasWitnessKey(DecodeAnswerVin[2])
  /\ ~HasWitnessKey(DecodeAnswerVin[1])

\* C7: the signer is only asked with a non-empty list of PrevOuts; a
\* transaction that ends its input loop with no PrevOut returns its original
\* hex without any sign command.
C7_EmptyPrevoutsNoSign ==
  /\ SignIssued => Len(prevouts) > 0
  /\ (pc \in {"main", "done"} /\ i >= 1 /\ Len(prevouts) = 0) =>
       /\ ~SignIssued
       /\ returned[i].signer = <<>>
       /\ signed_txs[i].bitcoin = txs[i].bitcoin

\* A transaction with a witnessed input and an input resolved to None was
\* passed through.
C7_Witness ==
  /\ pc = "main"
  /\ i >= 1
  /\ Len(prevouts) = 0
  /\ Len(decoded) = 2
  /\ \E k \in 1..Len(item_outs) : OutOfRange(k)
  /\ \E n \in 1..2 : HasWitnessKey(DecodeAnswerVin[n])

\* The signer's answer to command k parsed and reports complete = false.
IncompleteAnswer(k) ==
  /\ IsSign(k)
  /\ PrintedDoc(k, {"hex", "complete"})
  /\ Doc(k).complete = FALSE

\* C8: an incomplete signature is not fatal: the hex of the signer's answer is
\* the transaction's outcome and main goes on; the run fails only when the
\* input could not be read or a gateway call or a parse failed; a run that ends
\* prints one entry per input.
C8_IncompleteNonFatal ==
  /\ \A k \in 1..Len(item_outs) :
       IncompleteAnswer(k) =>
         /\ pc \in {"main", "done"}
         /\ err = <<>>
         /\ i <= Len(txs)
         /\ Len(signed_txs) = i
         /\ signed_txs[i].bitcoin = Doc(k).hex
  /\ pc = "failed" =>
       \/ Len(item_outs) = 0
       \/ GatewayOrParseFailed(Len(item_outs))
  /\ pc = "done" => Len(stdout) = 1 /\ Len(Output) = Len(txs)

\* A batch of two ended with its output printed, the second transaction
\* signed incompletely and without any change of the hex.
C8_Witness ==
  /\ pc = "done"
  /\ Len(txs) = 2
  /\ returned[1].signer # <<>>
  /\ IncompleteAnswer(Len(item_outs))
  /\ Output[2].bitcoin = txs[2].bitcoin

WarningMsg == "Warning: Transaction not fully signed. Errors: "

\* C9: every answer of the signer that reports complete = false, with or
\* without an errors list, makes a not-fully-signed warning be printed for the
\* transaction.
C9_IncompleteAlwaysWarned ==
  \A k \in 1..Len(item_outs) :
    IncompleteAnswer(k) =>
      \E m \in 1..Len(item_diag) : item_diag[m].msg = WarningMsg

\* C10: in a run that ends with success every input contributed exactly one
\* output entry, in order: the hex of the signer's answer when the signer was
\* asked for it, and the input's own hex when it was not.
C10_OutputValues ==
  /\ pc = "done" =>
       /\ Len(stdout) = 1
       /\ Len(returned) = Len(txs)
       /\ Len(Output) = Len(txs)
       /\ \A k \in 1..Len(txs) :
            /\ returned[k].item = k - 1
            /\ Output[k].bitcoin =
                 IF returned[k].signer # <<>> THEN returned[k].signer[1]
                 ELSE txs[k].bitcoin
  /\ (pc \in {"main", "done"} /\ i >= 1) => (SignIssued <=> returned[i].signer # <<>>)

\* A batch of two was printed: the first passed through, the second with the
\* signed hex of the wallet.
C10_Witness ==
  /\ pc = "done"
  /\ Len(txs) = 2
  /\ returned[1].signer = <<>>
  /\ returned[2].signer = <<txs[2].bitcoin \o "+sig">>
  /\ Output[2].bitcoin = txs[2].bitcoin \o "+sig"
  /\ Output[1].bitcoin = txs[1].bitcoin

\* The process of command k ran and exited with a non-zero status.
NonZeroExit(k) == item_outs[k].launched /\ item_outs[k].status # 0

\* C11: fail-fast with diagnostic: when a gateway command exits with a non-zero
\* status the run has failed, that command is the last one launched (nothing is
\* launched after it, nothing is outstanding, no step follows), and the error
\* main returns quotes the stderr text of that command.
C11_FailFastDiagnostic ==
  /\ \A k \in 1..Len(item_outs) :
       NonZeroExit(k) =>
         /\ pc = "failed"
         /\ call = <<>>
         /\ k = Len(item_cmds)
         /\ stdout = <<>>
         /\ \E m \in 1..Len(err) :
              err[m] \in {"bitcoin-cli failed: " \o item_outs[k].stderr,
                          "docker exec bitcoin-cli failed: " \o item_outs[k].stderr}
  /\ pc = "failed" => ~ENABLED Next

\* The sign command of the second transaction, sent through docker, exited
\* with a non-zero status after two fetches.
C11_Witness ==
  /\ pc = "failed"
  /\ i = 1
  /\ container.some
  /\ Len(item_cmds) = 4
  /\ IsSign(4)
  /\ NonZeroExit(4)

\* The two transports on the same process outcome.
Trimmed(text) == Len(text) = 0 \/ (~IsWs(text[1]) /\ ~IsWs(text[Len(text)]))
SameContract(output) ==
  IF ~output.launched
    THEN /\ run_btc_cli(output) = Err(<<"Failed to execute bitcoin-cli", output.io>>)
         /\ run_docker_btc(output) = Err(<<"Failed to execute docker", output.io>>)
  ELSE IF output.status # 0
    THEN /\ run_btc_cli(output) = Err(<<"bitcoin-cli failed: " \o output.stderr>>)
         /\ run_docker_btc(output) =
              Err(<<"docker exec bitcoin-cli failed: " \o output.stderr>>)
  ELSE /\ run_btc_cli(output).ok
       /\ run_docker_btc(output) = run_btc_cli(output)
       /\ Trimmed(run_docker_btc(output).val)

\* C12: the direct and the container-proxied transport keep the same contract:
\* on every process outcome a run meets (each one is the newest outcome in the
\* state that follows its return), both succeed or both fail; on a zero exit
\* both return the same trimmed standard output; on a non-zero exit both fail
\* with an error that quotes stderr, on a launch failure with one that carries
\* the I/O error; and bitcoin-cli gets the command name and the arguments in
\* the same order whichever transport carries the sign command.
C12_TransportsAgree ==
  /\ Len(item_outs) > 0 => SameContract(item_outs[Len(item_outs)])
  /\ \A k \in 1..Len(item_cmds) :
       IsSign(k) =>
         LET a == item_cmds[k].cmd.args
             off == IF container.some THEN 3 ELSE 0
         IN /\ Len(a) = off + 3
            /\ container.some =>
                 /\ item_cmds[k].cmd.program = "docker"
                 /\ a[1] = "exec" /\ a[2] = container.val /\ a[3] = "bitcoin-cli"
            /\ ~container.some => item_cmds[k].cmd.program = "bitcoin-cli"
            /\ a[off + 1] = "signrawtransactionwithwallet"
            /\ a[off + 2] \in {txs[n].bitcoin : n \in 1..Len(txs)}
            /\ a[off + 3] = PrevOutsJson(prevouts)

\* A sign command sent through docker exited with status 0 and its answer,
\* trimmed, was parsed.
C12_Witness ==
  /\ container.some
  /\ pc = "main"
  /\ i = 1
  /\ Len(item_outs) >= 3
  /\ IsSign(Len(item_outs))
  /\ PrintedDoc(Len(item_outs), {"hex", "complete"})
  /\ Len(item_outs[Len(item_outs)].stdout) = 2
  /\ returned[1].signer # <<>>

\* The transaction of the batch (1-based) the history is about.
CurItem == IF pc \in {"main", "done"} THEN i ELSE i + 1

\* The previous-outputs list the signer must get for the first n inputs of the
\* decode answer: one element per input that has no witness key and whose
\* output the node holds, in input order, with the node's value and script.
RECURSIVE ExpectedPrevouts(_)
ExpectedPrevouts(n) ==
  IF n = 0 THEN <<>>
  ELSE LET e == DecodeAnswerVin[n]
           rest == ExpectedPrevouts(n - 1)
       IN IF /\ ~HasWitnessKey(e)
             /\ e.txid \in KnownTxIds
             /\ e.vout < Len(NodeVout(e.txid))
            THEN Append(rest,
                   [txid |-> e.txid, vout |-> e.vout,
                    amount |-> NodeVout(e.txid)[e.vout + 1].value,
                    scriptPubKey |-> NodeVout(e.txid)[e.vout + 1].scriptPubKey.hex])
            ELSE rest

\* C13: whenever the signer is invoked its arguments are the original raw hex
\* of the transaction and a list with exactly one PrevOut per unwitnessed input
\* the node resolved as found, in input order, each with the input's txid and
\* index and the value and script of the node's output at that index;
\* witnessed inputs and inputs resolved to None add nothing.
C13_SignerArguments ==
  \A k \in 1..Len(item_cmds) :
    IsSign(k) =>
      LET a == CliArgs(item_cmds[k].cmd)
      IN /\ Len(a) = 3
         /\ a[2] = txs[CurItem].bitcoin
         /\ Len(a[3].json) >= 1
         /\ a[3].json = ExpectedPrevouts(Len(DecodeAnswerVin))

\* The signer is asked with two PrevOuts, the output 1 of t1 before its
\* output 0, as the inputs are ordered.
C13_Witness ==
  /\ pc = "sign"
  /\ Len(CliArgs(call[1])[3].json) = 2
  /\ CliArgs(call[1])[3].json[1].vout = 1
  /\ CliArgs(call[1])[3].json[2].vout = 0
  /\ CliArgs(call[1])[3].json[1].amount = 7

\* C14: gateway invocations are sequential and ordered: at most one process is
\* outstanding, and it is the last command launched; in a transaction the
\* decode command is the first and returns before any fetch, the fetches are
\* launched in input order, and the sign command comes last, after the fetch
\* of every unwitnessed input has returned; no command of a transaction is
\* launched before every command of the transactions before it has returned.
C14_Sequential ==
  /\ Len(call) <= 1
  /\ Len(item_outs) <= Len(item_cmds)
  /\ Len(item_cmds) <= Len(item_outs) + 1
  /\ (call # <<>>) <=> (Len(item_cmds) = Len(item_outs) + 1)
  /\ call # <<>> =>
       /\ pc \in {"decode", "fetch", "sign"}
       /\ call[1] = item_cmds[Len(item_cmds)].cmd
  /\ \A k \in 1..Len(item_cmds) :
       /\ IsDecode(k) <=> k = 1
       /\ IsFetch(k) => /\ Returned(1)
                        /\ \A l \in 1..(k - 1) :
                             /\ Returned(l)
                             /\ IsFetch(l) => item_cmds[l].input < item_cmds[k].input
       /\ IsSign(k) =>
            /\ k = Len(item_cmds)
            /\ \A l \in 1..(k - 1) : Returned(l)
            /\ \A n \in 1..Len(DecodeAnswerVin) :
                 ~HasWitnessKey(DecodeAnswerVin[n]) =>
                   \E l \in 2..(k - 1) : IsFetch(l) /\ item_cmds[l].input = n - 1
  /\ pc = "main" => call = <<>> /\ Len(item_outs) = Len(item_cmds)
  /\ Len(returned) = i
  /\ \A k \in 1..Len(returned) : returned[k].item = k - 1
  /\ Len(item_cmds) >= 1 => CliArgs(item_cmds[1].cmd)[2] = txs[CurItem].bitcoin

\* The signer is outstanding for the second transaction, after the decode and
\* two fetches of that transaction returned.
C14_Witness ==
  /\ pc = "sign"
  /\ i = 1
  /\ Len(call) = 1
  /\ Len(item_cmds) = 4
  /\ Len(item_outs) = 3
  /\ IsFetch(2) /\ IsFetch(3) /\ IsSign(4)

DecodeAnswered == Len(item_outs) >= 1 /\ PrintedDoc(1, {"vin"})
FetchesFor(n) == {k \in 1..Len(item_cmds) : IsFetch(k) /\ item_cmds[k].input = n}

\* C15: no retry and no caching: for a transaction the decode command is
\* launched once and the sign command at most once; every unwitnessed input
\* the loop has processed got exactly one fetch command of its own (also when
\* another input names the same txid), a witnessed input none; a command that
\* failed is the last command of the run.
C15_NoRetryNoCache ==
  /\ Cardinality({k \in 1..Len(item_cmds) : IsDecode(k)}) <= 1
  /\ Cardinality({k \in 1..Len(item_cmds) : IsSign(k)}) <= 1
  /\ DecodeAnswered =>
       LET vin == DecodeAnswerVin
       IN \A n \in 0..(Len(vin) - 1) :
            LET fetches == Cardinality(FetchesFor(n))
            IN /\ fetches <= 1
               /\ HasWitnessKey(vin[n + 1]) => fetches = 0
               /\ (n < j /\ ~HasWitnessKey(vin[n + 1])) => fetches = 1
               /\ n > j => fetches = 0
  /\ \A k \in 1..Len(item_outs) :
       GatewayOrParseFailed(k) => k = Len(item_cmds) /\ pc = "failed"
  /\ Len(returned) = i

\* Two inputs naming the same txid were each fetched with a command of their own.
C15_Witness ==
  /\ pc = "vin"
  /\ j = 2
  /\ Len(item_cmds) = 3
  /\ Len(item_outs) = 3
  /\ IsFetch(2) /\ IsFetch(3)
  /\ CliArgs(item_cmds[2].cmd)[2] = CliArgs(item_cmds[3].cmd)[2]
  /\ FetchInput(2).vout = FetchInput(3).vout

\* Every step of the program is taken when it can be, and every process main
\* waits for ends (its outcome arrives): the program is one thread that blocks
\* only in Command::output().
FairSpec == Spec /\ WF_vars(Next)

Succeeded ==
  /\ pc = "done"
  /\ Len(signed_txs) = Len(txs)
  /\ stdout = <<TxEntriesJson(signed_txs)>>
Failed == pc = "failed" /\ stdout = <<>> /\ err # <<>>
Terminal == Succeeded \/ Failed

\* C16: termination: when every gateway invocation returns, the run ends, for
\* good, in one of two states: success with the complete output list printed,
\* or failure with nothing printed; it does not stay in an intermediate state.
C16_Terminates == <>[]Terminal

\* A batch of two ended with success after the signer was asked for the
\* second transaction, whose two inputs were both fetched.
C16_Witness ==
  /\ Succeeded
  /\ Len(txs) = 2
  /\ Len(item_cmds) = 4
  /\ IsSign(4)
  /\ call = <<>>

\* C17: transport routing: with a container configured only the sign command
\* goes through `docker exec <container> bitcoin-cli`, the decode and the fetch
\* commands are run as bitcoin-cli directly; with no container every command
\* is run as bitcoin-cli directly.
C17_TransportRouting ==
  \A k \in 1..Len(item_cmds) :
    LET c == item_cmds[k].cmd
    IN /\ c.program \in {"bitcoin-cli", "docker"}
       /\ c.program = "docker" <=> (container.some /\ IsSign(k))
       /\ c.program = "docker" =>
            /\ c.args[1] = "exec"
            /\ c.args[2] = container.val
            /\ c.args[3] = "bitcoin-cli"
            /\ c.args[4] = "signrawtransactionwithwallet"
       /\ c.program = "bitcoin-cli" =>
            c.args[1] \in {"decoderawtransaction", "getrawtransaction",
                           "signrawtransactionwithwallet"}
       /\ c.args[1] = "signrawtransactionwithwallet" => ~container.some

\* With a container configured, the decode and a fetch went directly and the
\* sign command is outstanding through docker.
C17_Witness ==
  /\ container.some
  /\ pc = "sign"
  /\ Len(item_cmds) = 3
  /\ item_cmds[1].cmd.program = "bitcoin-cli"
  /\ item_cmds[2].cmd.program = "bitcoin-cli"
  /\ item_cmds[3].cmd.program = "docker"

\* The commands of the current transaction use that transaction's own data.
OwnArguments ==
  \A k \in 1..Len(item_cmds) :
    LET a == CliArgs(item_cmds[k].cmd)
    IN /\ IsDecode(k) => a[2] = txs[CurItem].bitcoin
       /\ IsSign(k) =>
            /\ a[2] = txs[CurItem].bitcoin
            /\ \A m \in 1..Len(a[3].json) :
                 \E l \in 2..(k - 1) :
                   /\ IsFetch(l)
                   /\ FetchInput(l).txid = a[3].json[m].txid
                   /\ FetchInput(l).vout = a[3].json[m].vout
       /\ IsFetch(k) =>
            /\ DecodeAnswered
            /\ a[2] = FetchInput(k).txid
            /\ a[3] = "true"
\* A transaction starts with fresh locals: nothing of the one before is left.
FreshLocals == pc = "decode" => decoded = <<>> /\ prevouts = <<>> /\ j = 0 /\ item_outs = <<>>
\* A step keeps the input list and the configuration, and changes the result
\* list only by appending one entry.
FrameStep ==
  /\ pc # "start" => txs' = txs
  /\ container' = container
  /\ Len(signed_txs') \in {Len(signed_txs), Len(signed_txs) + 1}
  /\ \A k \in 1..Len(signed_txs) : signed_txs'[k] = signed_txs[k]
  /\ Len(signed_txs') = Len(signed_txs) + 1 => pc' = "main" /\ i' = i + 1

\* C18: batch items are processed independently: the hex given to the decode
\* and to the sign command of item i is item i's original input hex, the
\* txids fetched and the prevouts given to the signer are those of item i's
\* own inputs, every item starts with empty locals, and between items only the
\* result list is carried on, which steps change by appending alone.
C18_ItemsIndependent == [](OwnArguments /\ FreshLocals) /\ [][FrameStep]_vars

\* The signer is asked for the second item with that item's original hex,
\* after the first item, of the same hex, was returned signed by the wallet.
C18_Witness ==
  /\ pc = "sign"
  /\ i = 1
  /\ txs[1].bitcoin = txs[2].bitcoin
  /\ signed_txs[1].bitcoin = txs[1].bitcoin \o "+sig"
  /\ CliArgs(call[1])[2] = txs[2].bitcoin

====
